---- MODULE Spec2Model ----
(***************************************************************************)
(* The useRabbitHole hook of src/components/rabbithole.tsx as a state      *)
(* machine: the hook's React state cells, the WS ref, the sockets the      *)
(* connection effect builds, the values the latest render closed over, and *)
(* one action per socket event, per render/commit and per exported         *)
(* command.                                                                *)
(*                                                                         *)
(* The identities of speak and onRegister are taken as stable between      *)
(* renders.                                                                *)
(*                                                                         *)
(* React: a setter call changes the state cell at once (canAuthenticate,   *)
(* authenticated, logs, messages below); the constants a render binds,     *)
(* which the effects and the exported callbacks close over, are the cells' *)
(* values at that render (the record seen). A render, its commit and its   *)
(* effects are one step; socket events and commands are other steps, so    *)
(* they may run between a setter call and the render it asks for.          *)
(*                                                                         *)
(* WebSocket: send() on a CONNECTING socket throws InvalidStateError, on a *)
(* CLOSING or CLOSED socket it discards the frame silently; close() moves  *)
(* CONNECTING/OPEN to CLOSING and the close event follows later; message   *)
(* events are delivered only while OPEN.                                   *)
(***************************************************************************)
EXTENDS Integers, Sequences, FiniteSets, TLC

VARIABLES
    url, imei, accountKey,               \* the props the parent passes now
    mounted,                             \* "init" | "mounted" | "unmounted"
    seen,                                \* what the latest render bound
    canAuthenticate, authenticated,      \* useState cells (lines 26-27)
    logs, messages,                      \* useState cells (lines 24-25)
    WS,                                  \* WS.current (line 29), 0 is null
    teardown,                            \* newWS of the registered cleanup, 0 if none
    rs,                                  \* readyState of every socket built
    closeDue,                            \* sockets failed, close event not yet fired
    emptyAtOpen,                         \* observer: sockets opened while accountKey or imei was ""
    sent,                                \* every call of a socket's send()
    readers,                             \* FileReader reads in flight
    sentAtRead,                          \* observer: Len(sent) when each read in flight was started
    last,                                \* the step just taken
    out                                  \* what that step handed to collaborators

vars == <<url, imei, accountKey, mounted, seen, canAuthenticate,
          authenticated, logs, messages, WS, teardown, rs, closeDue,
          emptyAtOpen, sent,
          readers, sentAtRead, last, out>>

Props == UNCHANGED <<url, imei, accountKey, mounted, seen>>

Quiet == UNCHANGED <<closeDue, emptyAtOpen>>

Settled == UNCHANGED sentAtRead

----------------------------------------------------------------------------
(* The bound of the model: a step is taken only while logs, messages and   *)
(* sent each hold fewer than MaxHistory entries. Sockets and reads in      *)
(* flight are bounded with it.                                             *)
MaxHistory == 4
MaxSockets == MaxHistory - 1
MaxReaders == MaxHistory - 2

Sockets == 1..MaxSockets

(* Inputs. *)
Urls == {"", "wss://r1"}
Imeis == {"", "D1"}
AccountKeys == {"", "K1"}
Texts == {"hi"}
PttInputs == {<<"true", "img">>, <<"false", "">>}
Blobs == {"wav", "ogg"}
QrCodes == {"qr"}
Raws == {"raw"}

MaskImei == "*********"
MaskAccountKey == "*******************"

----------------------------------------------------------------------------
(* The mutable part of the program as one record, so that a handler is a   *)
(* composition of the statements it runs.                                  *)
Cur ==
    [canAuthenticate |-> canAuthenticate, authenticated |-> authenticated,
     logs |-> logs, messages |-> messages, WS |-> WS, teardown |-> teardown,
     rs |-> rs, sent |-> sent, readers |-> readers,
     console |-> <<>>, spoken |-> <<>>, registered |-> <<>>, exc |-> "none"]

Out(S) ==
    [console |-> S.console, spoken |-> S.spoken, registered |-> S.registered,
     exc |-> S.exc]

Put(S) ==
    /\ canAuthenticate' = S.canAuthenticate
    /\ authenticated' = S.authenticated
    /\ logs' = S.logs
    /\ messages' = S.messages
    /\ WS' = S.WS
    /\ teardown' = S.teardown
    /\ rs' = S.rs
    /\ sent' = S.sent
    /\ readers' = S.readers
    /\ out' = Out(S)

(* Room left in the recorded histories; every step is taken only with room. *)
Room ==
    /\ Len(logs) < MaxHistory
    /\ Len(messages) < MaxHistory
    /\ Len(sent) < MaxHistory

----------------------------------------------------------------------------
(* State setters and helpers. *)
setLogs(S, entry) == [S EXCEPT !.logs = Append(@, entry)]

\* mutant: addMessage that appends at the end
addMessageAtEnd(S, data, type, dataType) ==
    [S EXCEPT !.messages =
        @ \o <<[type |-> type, data |-> data, dataType |-> dataType]>>]

\* The random id of an entry is left out: nothing reads it.
addMessage(S, data, type, dataType) ==
    [S EXCEPT !.messages =
        <<[type |-> type, data |-> data, dataType |-> dataType]>> \o @]

setCanAuthenticate(S, b) == [S EXCEPT !.canAuthenticate = b]

setAuthenticated(S, b) == [S EXCEPT !.authenticated = b]

consoleLog(S, line) == [S EXCEPT !.console = Append(@, line)]

\* WebSocket.send(frame) on socket s.
wsSend(S, s, frame) ==
    LET call == [sock |-> s, rs |-> S.rs[s], frame |-> frame]
        T == [S EXCEPT !.sent = Append(@, call)]
    IN  IF S.rs[s] = "CONNECTING"
        THEN [T EXCEPT !.exc = "InvalidStateError"]
        ELSE T

\* WebSocket.close() on socket s.
wsClose(S, s) ==
    IF S.rs[s] \in {"CONNECTING", "OPEN"}
    THEN [S EXCEPT !.rs[s] = "CLOSING"]
    ELSE S

RECURSIVE join(_, _)
join(items, sep) ==
    IF Len(items) = 0 THEN <<>>
    ELSE IF Len(items) = 1 THEN <<items[1]>>
    ELSE <<items[1], sep>> \o join(Tail(items), sep)

----------------------------------------------------------------------------
(* Inbound frames. An envelope is the text of one message event: json says *)
(* whether JSON.parse accepts it, hasData whether the parsed object has a  *)
(* data object to read fields from, data the tokens of data.data (for      *)
(* register the imei and the accountKey, for long the images, for audio    *)
(* the audio), active the truthiness of the top-level field data.active    *)
(* and dataActive that of data.data.active.                                *)
Env(type, data, hasData, active, dataActive) ==
    [json |-> TRUE, type |-> type, data |-> data, hasData |-> hasData,
     active |-> active, dataActive |-> dataActive]

Garbage ==
    [json |-> FALSE, type |-> "", data |-> <<>>, hasData |-> FALSE,
     active |-> FALSE, dataActive |-> FALSE]

Inbound ==
    { Env("logon", <<"success">>, TRUE, FALSE, FALSE),
      Env("logon", <<"denied">>, TRUE, FALSE, FALSE),
      Env("message", <<"hello">>, TRUE, FALSE, FALSE),
      Env("ptt", <<"clip">>, TRUE, FALSE, FALSE),
      Env("audio", <<"b64">>, TRUE, FALSE, FALSE),
      Env("audio", <<>>, FALSE, FALSE, FALSE),
      Env("register", <<"D1", "K1">>, TRUE, FALSE, FALSE),
      Env("long", <<"i1", "i2">>, TRUE, FALSE, FALSE),
      Env("long", <<>>, FALSE, FALSE, FALSE),
      Env("meeting", <<>>, TRUE, TRUE, FALSE),
      Env("meeting", <<>>, TRUE, FALSE, TRUE),
      Env("unknownx", <<"z">>, TRUE, FALSE, FALSE),
      Garbage }

----------------------------------------------------------------------------
(* The listeners the connection effect registers on newWS (lines 55-116).  *)

\* 'open' listener, lines 55-60
onOpen(S) ==
    consoleLog(
        setCanAuthenticate(
            addMessage(setLogs(S, <<"Connected to Rabbithole">>),
                       <<"Connected to Rabbithole">>, "system", "text"),
            TRUE),
        <<"Connected to Rabbithole">>)

\* mutant: a default case that appends to logs instead of the console
caseDefaultLogged(S, data) ==
    setLogs(S, <<"Unknown message type", data.type>> \o data.data)

\* default case, lines 100-102
caseDefault(S, data) ==
    consoleLog(S, <<"Unknown message type", data.type>> \o data.data)

\* case 'meeting', lines 95-99, which runs on into the default case
caseMeeting(S, data) ==
    caseDefault(
        IF data.active
        THEN addMessage(S, <<"Meeting started">>, "system", "text")
        ELSE S,
        data)

\* case 'long', lines 92-94, which runs on into case 'meeting'
caseLong(S, data) ==
    IF ~data.hasData
    THEN [S EXCEPT !.exc = "TypeError"]
    ELSE caseMeeting(addMessage(S, join(data.data, "\n"), "rabbit", "image"), data)

\* mutant: a failure acknowledgment that also clears authenticated
caseLogonFailureResets(S, data) ==
    IF data.data # <<"success">>
    THEN setAuthenticated(setLogs(S, <<"Authentication failed">>), FALSE)
    ELSE addMessage(
            setLogs(setCanAuthenticate(setAuthenticated(S, TRUE), FALSE),
                    <<"Authenticated successfully">>),
            <<"Authenticated successfully">>, "system", "text")

\* mutant: a success acknowledgment that forgets setCanAuthenticate(false)
caseLogonKeepsEligible(S, data) ==
    IF data.data # <<"success">>
    THEN setLogs(S, <<"Authentication failed">>)
    ELSE addMessage(
            setLogs(setAuthenticated(S, TRUE), <<"Authenticated successfully">>),
            <<"Authenticated successfully">>, "system", "text")

\* case 'logon', lines 66-74
caseLogon(S, data) ==
    IF data.data # <<"success">>
    THEN setLogs(S, <<"Authentication failed">>)
    ELSE addMessage(
            setLogs(setCanAuthenticate(setAuthenticated(S, TRUE), FALSE),
                    <<"Authenticated successfully">>),
            <<"Authenticated successfully">>, "system", "text")

\* case 'register', lines 86-91
caseRegister(S, data) ==
    IF ~data.hasData
    THEN [S EXCEPT !.exc = "TypeError"]
    ELSE LET responseData == <<"imei", data.data[1], "accountKey", data.data[2]>>
             T == [S EXCEPT !.registered =
                      Append(@, <<data.data[1], data.data[2], responseData>>)]
         IN  setLogs(T, <<"Registered with data: ">> \o responseData)

\* 'message' listener, lines 62-104
onMessage(S, text) ==
    IF ~text.json
    THEN [S EXCEPT !.exc = "SyntaxError"]
    ELSE LET data == text
         IN  CASE data.type = "logon" -> caseLogon(S, data)
               [] data.type = "message" ->
                    addMessage(setLogs(S, data.data), data.data, "rabbit", "text")
               [] data.type = "ptt" -> addMessage(S, data.data, "user", "audio")
               [] data.type = "audio" ->
                    IF ~data.hasData
                    THEN [S EXCEPT !.exc = "TypeError"]
                    ELSE [S EXCEPT !.spoken = Append(@, data.data[1])]
               [] data.type = "register" -> caseRegister(S, data)
               [] data.type = "long" -> caseLong(S, data)
               [] data.type = "meeting" -> caseMeeting(S, data)
               [] OTHER -> caseDefault(S, data)

\* mutant: a close listener that forgets setAuthenticated(false)
onCloseKeepsAuthenticated(S) ==
    setCanAuthenticate(
        addMessage(setLogs(S, <<"Disconnected from Rabbithole">>),
                   <<"Disconnected from Rabbithole">>, "system", "text"),
        FALSE)

\* 'close' listener, lines 106-111
onClose(S) ==
    setAuthenticated(
        setCanAuthenticate(
            addMessage(setLogs(S, <<"Disconnected from Rabbithole">>),
                       <<"Disconnected from Rabbithole">>, "system", "text"),
            FALSE),
        FALSE)

\* mutant: an error listener that also resets the flags, as the close listener does
onErrorResets(S) ==
    setAuthenticated(
        setCanAuthenticate(
            addMessage(setLogs(S, <<"Error: ", "{\"isTrusted\":true}">>),
                       <<"Error: ", "{\"isTrusted\":true}">>, "system", "text"),
            FALSE),
        FALSE)

\* 'error' listener, lines 113-116
onError(S) ==
    addMessage(setLogs(S, <<"Error: ", "{\"isTrusted\":true}">>),
               <<"Error: ", "{\"isTrusted\":true}">>, "system", "text")

----------------------------------------------------------------------------
(* The two effects. n is the record of constants the render binds; prev is *)
(* that of the render before it.                                           *)

\* dependency list of the connection effect, line 123
connectionDepsChanged(prev, n) == prev.url # n.url \/ prev.imei # n.imei

\* mutant: the authentication effect without a dependency list
authenticationDepsMissing(prev, n) == TRUE

\* dependency list of the authentication effect, line 143
authenticationDepsChanged(prev, n) ==
    \/ prev.accountKey # n.accountKey
    \/ prev.imei # n.imei
    \/ prev.canAuthenticate # n.canAuthenticate
    \/ prev.authenticated # n.authenticated

\* mutant: a cleanup that resets the flags but leaves the socket open
connectionCleanupNoClose(S) ==
    setAuthenticated(setCanAuthenticate(S, FALSE), FALSE)

\* the cleanup the connection effect returns, lines 118-122
connectionCleanup(S) ==
    setAuthenticated(setCanAuthenticate(wsClose(S, S.teardown), FALSE), FALSE)

FreeSockets(S) == {s \in Sockets : S.rs[s] = "NONE"}

NewSocket(S) == CHOOSE s \in FreeSockets(S) : \A o \in FreeSockets(S) : s <= o

\* body of the connection effect, lines 46-53 (the listeners are the
\* actions Open, Message, Close and Error below)
connectionEffect(S, n) ==
    IF n.url = ""
    THEN [S EXCEPT !.teardown = 0]
    ELSE LET newWS == NewSocket(S)
             T == consoleLog(S, <<"Building new websocket">>)
         IN  [T EXCEPT !.rs[newWS] = "CONNECTING", !.WS = newWS,
                       !.teardown = newWS]

\* the frame of line 133
logonPayload(n) == [type |-> "logon", data |-> <<n.imei, n.accountKey>>]

\* mutant: the authentication effect without the empty-credential check
authenticationEffectNoEmptyCheck(S, n) ==
    IF ~n.canAuthenticate \/ n.authenticated \/ S.WS = 0
    THEN S
    ELSE wsSend(
            addMessage(
                setLogs(S, <<"Authenticating with payload: ", "logon",
                             MaskImei, MaskAccountKey>>),
                <<"Authenticating">>, "system", "text"),
            S.WS, logonPayload(n))

\* body of the authentication effect, lines 126-142
authenticationEffect(S, n) ==
    IF ~n.canAuthenticate \/ n.authenticated \/ S.WS = 0
    THEN S
    ELSE IF n.accountKey = "" \/ n.imei = ""
    THEN setLogs(S, <<"Account key or IMEI not provided">>)
    ELSE wsSend(
            addMessage(
                setLogs(S, <<"Authenticating with payload: ", "logon",
                             MaskImei, MaskAccountKey>>),
                <<"Authenticating">>, "system", "text"),
            S.WS, logonPayload(n))

\* The passive effects of one commit: the cleanup of a connection effect
\* whose dependencies changed, then the effect bodies in source order.
runEffects(S, prev, n, first) ==
    LET conn == first \/ connectionDepsChanged(prev, n)
        auth == first \/ authenticationDepsChanged(prev, n)
        S1 == IF conn /\ S.teardown # 0 THEN connectionCleanup(S) ELSE S
        S2 == IF conn THEN connectionEffect(S1, n) ELSE S1
    IN  IF auth THEN authenticationEffect(S2, n) ELSE S2

\* What a render binds: the props and the state cells of that moment.
Bind(u, i, k) ==
    [url |-> u, imei |-> i, accountKey |-> k,
     canAuthenticate |-> canAuthenticate, authenticated |-> authenticated,
     nlogs |-> Len(logs), nmessages |-> Len(messages)]

Step(op, sock, env, args) == [op |-> op, sock |-> sock, env |-> env, args |-> args]

\* One render with props (u, i, k), its commit and its effects. An effect
\* that throws unmounts the component: React then runs the cleanup.
Commit(u, i, k, first, label) ==
    LET n == Bind(u, i, k)
        S == runEffects(Cur, seen, n, first)
        needsSocket == (first \/ connectionDepsChanged(seen, n)) /\ u # ""
    IN  /\ needsSocket => FreeSockets(Cur) # {}
        /\ url' = u /\ imei' = i /\ accountKey' = k
        /\ seen' = n
        /\ last' = label
        /\ IF S.exc = "none"
           THEN /\ Put(S)
                /\ mounted' = "mounted"
           ELSE /\ Put(IF S.teardown # 0 THEN connectionCleanup(S) ELSE S)
                /\ mounted' = "unmounted"
        /\ Quiet /\ Settled

----------------------------------------------------------------------------
(* The exported commands, as the latest render built them: they read the   *)
(* constants of seen and the ref WS.                                       *)

\* mutant: sendMessage without the authenticated guard
sendMessageUngated(S, n, message) ==
    IF S.WS = 0
    THEN S
    ELSE LET payload == [type |-> "message", data |-> <<message>>]
         IN  wsSend(
                addMessage(
                    setLogs(S, <<"Sending message: ", payload.type>> \o payload.data),
                    <<message>>, "user", "text"),
                S.WS, payload)

\* mutant: sendMessage that forgets the transcript entry
sendMessageNoTranscript(S, n, message) ==
    IF ~n.authenticated \/ S.WS = 0
    THEN S
    ELSE LET payload == [type |-> "message", data |-> <<message>>]
         IN  wsSend(
                setLogs(S, <<"Sending message: ", payload.type>> \o payload.data),
                S.WS, payload)

\* sendMessage, lines 145-154
sendMessage(S, n, message) ==
    IF ~n.authenticated \/ S.WS = 0
    THEN S
    ELSE LET payload == [type |-> "message", data |-> <<message>>]
         IN  wsSend(
                addMessage(
                    setLogs(S, <<"Sending message: ", payload.type>> \o payload.data),
                    <<message>>, "user", "text"),
                S.WS, payload)

\* sendPTT, lines 156-166
sendPTT(S, n, ptt, image) ==
    IF ~n.authenticated \/ S.WS = 0
    THEN S
    ELSE LET payload == [type |-> "ptt", data |-> <<ptt, image>>]
             S1 == setLogs(S, <<"Sending PTT with status ", ptt,
                                IF image # "" THEN "with an image"
                                              ELSE "without image">>)
             S2 == IF image # "" THEN addMessage(S1, <<image>>, "user", "image")
                                 ELSE S1
         IN  wsSend(S2, S.WS, payload)

\* FileReader.readAsDataURL: the data URL of a blob of the given kind
dataURL(blob) ==
    <<"data:", IF blob = "wav" THEN "audio/wav" ELSE "audio/ogg", ";base64,", blob>>

\* sendAudio up to the start of the read, lines 169-172 and 184
sendAudio(S, n, audio) ==
    IF ~n.authenticated
    THEN S
    ELSE [S EXCEPT !.readers = Append(@, audio)]

\* reader.onload, lines 173-183
readerOnload(S, audio) ==
    LET result == dataURL(audio)
    IN  IF S.WS = 0
        THEN S
        ELSE IF result[1] = "data:" /\ result[2] = "audio/wav"
        THEN wsSend(addMessage(S, <<"Sending audio">>, "system", "text"),
                    S.WS, [type |-> "audio", data |-> result])
        ELSE S

\* register, lines 189-198
register(S, n, qrcodeData) ==
    IF ~n.canAuthenticate \/ n.authenticated \/ S.WS = 0
    THEN S
    ELSE LET payload == [type |-> "register", data |-> <<qrcodeData>>]
         IN  wsSend(
                addMessage(
                    setLogs(S, <<"Registering: ", payload.type>> \o payload.data),
                    <<"Registering">>, "system", "text"),
                S.WS, payload)

\* sendRaw, lines 200-206
sendRaw(S, data) ==
    IF S.WS = 0 THEN S
    ELSE wsSend(S, S.WS, [type |-> "raw", data |-> <<data>>])

\* stopMeeting, lines 208-211
stopMeeting(S, n) ==
    IF ~n.authenticated \/ S.WS = 0 THEN S
    ELSE wsSend(S, S.WS, [type |-> "meeting", data |-> <<"false">>])

----------------------------------------------------------------------------
(* Actions. *)
NoEnv == Garbage

\* the first render of the hook and its effects
Mount ==
    /\ mounted = "init"
    /\ Commit(url, imei, accountKey, TRUE, Step("mount", 0, NoEnv, <<>>))

\* a render asked for by a setter call
Render ==
    /\ mounted = "mounted" /\ Room
    /\ \/ seen.canAuthenticate # canAuthenticate
       \/ seen.authenticated # authenticated
       \/ seen.nlogs # Len(logs)
       \/ seen.nmessages # Len(messages)
    /\ Commit(url, imei, accountKey, FALSE, Step("render", 0, NoEnv, <<>>))

\* the parent renders the hook with another url, imei or accountKey
SetUrl(u) ==
    /\ mounted = "mounted" /\ Room /\ u # url
    /\ Commit(u, imei, accountKey, FALSE, Step("setUrl", 0, NoEnv, <<u>>))

SetImei(i) ==
    /\ mounted = "mounted" /\ Room /\ i # imei
    /\ Commit(url, i, accountKey, FALSE, Step("setImei", 0, NoEnv, <<i>>))

SetAccountKey(k) ==
    /\ mounted = "mounted" /\ Room /\ k # accountKey
    /\ Commit(url, imei, k, FALSE, Step("setAccountKey", 0, NoEnv, <<k>>))

\* the component is disposed: React runs the registered cleanup
Unmount ==
    /\ mounted = "mounted"
    /\ Put(IF teardown # 0 THEN connectionCleanup(Cur) ELSE Cur)
    /\ mounted' = "unmounted"
    /\ last' = Step("unmount", 0, NoEnv, <<>>)
    /\ UNCHANGED <<url, imei, accountKey, seen>> /\ Quiet /\ Settled

\* socket events
Open(s) ==
    /\ Room /\ rs[s] = "CONNECTING"
    /\ Put(onOpen([Cur EXCEPT !.rs[s] = "OPEN"]))
    /\ emptyAtOpen' = IF accountKey = "" \/ imei = ""
                      THEN emptyAtOpen \cup {s} ELSE emptyAtOpen
    /\ last' = Step("open", s, NoEnv, <<>>)
    /\ Props /\ UNCHANGED closeDue /\ Settled

Message(s, text) ==
    /\ Room /\ rs[s] = "OPEN"
    /\ Put(onMessage(Cur, text))
    /\ last' = Step("message", s, text, <<>>)
    /\ Props /\ Quiet /\ Settled

\* the connection fails: the error event, with the close event to follow
ErrorEvent(s) ==
    /\ Room /\ rs[s] \in {"CONNECTING", "OPEN", "CLOSING"}
    /\ Put(onError([Cur EXCEPT !.rs[s] = "CLOSED"]))
    /\ closeDue' = closeDue \cup {s}
    /\ last' = Step("error", s, NoEnv, <<>>)
    /\ Props /\ UNCHANGED emptyAtOpen /\ Settled

Close(s) ==
    /\ Room /\ (rs[s] \in {"CONNECTING", "OPEN", "CLOSING"} \/ s \in closeDue)
    /\ Put(onClose([Cur EXCEPT !.rs[s] = "CLOSED"]))
    /\ closeDue' = closeDue \ {s}
    /\ last' = Step("close", s, NoEnv, <<>>)
    /\ Props /\ UNCHANGED emptyAtOpen /\ Settled

\* calls of the exported commands by the hook's user
Call(op, args, S) ==
    /\ mounted = "mounted" /\ Room
    /\ Put(S)
    /\ last' = Step(op, 0, NoEnv, args)
    /\ Props /\ Quiet
    /\ sentAtRead' = IF Len(S.readers) > Len(readers)
                     THEN Append(sentAtRead, Len(sent)) ELSE sentAtRead

SendMessage(m) == Call("sendMessage", <<m>>, sendMessage(Cur, seen, m))

SendPTT(ptt, image) == Call("sendPTT", <<ptt, image>>, sendPTT(Cur, seen, ptt, image))

SendAudio(audio) ==
    /\ Len(readers) < MaxReaders
    /\ Call("sendAudio", <<audio>>, sendAudio(Cur, seen, audio))

ReaderLoad(i) ==
    /\ Room
    /\ Put(readerOnload([Cur EXCEPT !.readers =
                            SubSeq(@, 1, i - 1) \o SubSeq(@, i + 1, Len(@))],
                        readers[i]))
    /\ sentAtRead' = SubSeq(sentAtRead, 1, i - 1)
                         \o SubSeq(sentAtRead, i + 1, Len(sentAtRead))
    /\ last' = Step("readerLoad", 0, NoEnv, <<readers[i]>>)
    /\ Props /\ Quiet

Register(qrcodeData) ==
    Call("register", <<qrcodeData>>, register(Cur, seen, qrcodeData))

SendRaw(data) == Call("sendRaw", <<data>>, sendRaw(Cur, data))

StopMeeting == Call("stopMeeting", <<>>, stopMeeting(Cur, seen))

----------------------------------------------------------------------------
Init ==
    /\ url \in Urls /\ imei \in Imeis /\ accountKey \in AccountKeys
    /\ mounted = "init"
    /\ canAuthenticate = FALSE /\ authenticated = FALSE
    /\ logs = <<>> /\ messages = <<>>
    /\ seen = [url |-> url, imei |-> imei, accountKey |-> accountKey,
               canAuthenticate |-> FALSE, authenticated |-> FALSE,
               nlogs |-> 0, nmessages |-> 0]
    /\ WS = 0 /\ teardown = 0
    /\ rs = [s \in Sockets |-> "NONE"]
    /\ closeDue = {}
    /\ emptyAtOpen = {}
    /\ sent = <<>>
    /\ readers = <<>>
    /\ sentAtRead = <<>>
    /\ last = Step("init", 0, NoEnv, <<>>)
    /\ out = Out(Cur)

Next ==
    \/ Mount
    \/ Render
    \/ \E u \in Urls : SetUrl(u)
    \/ \E i \in Imeis : SetImei(i)
    \/ \E k \in AccountKeys : SetAccountKey(k)
    \/ Unmount
    \/ \E s \in Sockets : Open(s)
    \/ \E s \in Sockets, text \in Inbound : Message(s, text)
    \/ \E s \in Sockets : ErrorEvent(s)
    \/ \E s \in Sockets : Close(s)
    \/ \E m \in Texts : SendMessage(m)
    \/ \E p \in PttInputs : SendPTT(p[1], p[2])
    \/ \E audio \in Blobs : SendAudio(audio)
    \/ \E i \in 1..Len(readers) : ReaderLoad(i)
    \/ \E q \in QrCodes : Register(q)
    \/ \E d \in Raws : SendRaw(d)
    \/ StopMeeting

Spec == Init /\ [][Next]_vars

(* Next with the environment narrowed to what one group of properties is   *)
(* about, so that the histories stay small enough to enumerate.            *)
LogonAcks == {e \in Inbound : e.type = "logon"}

\* the connection and authentication life cycle
NextAuth ==
    \/ Mount
    \/ Render
    \/ \E u \in Urls : SetUrl(u)
    \/ \E i \in Imeis : SetImei(i)
    \/ \E k \in AccountKeys : SetAccountKey(k)
    \/ Unmount
    \/ \E s \in Sockets : Open(s)
    \/ \E s \in Sockets, text \in LogonAcks : Message(s, text)
    \/ \E s \in Sockets : ErrorEvent(s)
    \/ \E s \in Sockets : Close(s)

SpecAuth == Init /\ [][NextAuth]_vars

\* the commands gated by authenticated
NextSend ==
    \/ Mount
    \/ Render
    \/ \E u \in Urls : SetUrl(u)
    \/ \E s \in Sockets : Open(s)
    \/ \E s \in Sockets, text \in LogonAcks : Message(s, text)
    \/ \E s \in Sockets : Close(s)
    \/ \E m \in Texts : SendMessage(m)
    \/ \E p \in PttInputs : SendPTT(p[1], p[2])
    \/ StopMeeting

SpecSend == Init /\ [][NextSend]_vars

\* the inbound dispatcher on one connection
NextDispatch ==
    \/ Mount
    \/ Render
    \/ Unmount
    \/ \E s \in Sockets : Open(s)
    \/ \E s \in Sockets, text \in Inbound : Message(s, text)
    \/ \E s \in Sockets : ErrorEvent(s)
    \/ \E s \in Sockets : Close(s)
    \/ \E m \in Texts : SendMessage(m)
    \/ \E q \in QrCodes : Register(q)

SpecDispatch == Init /\ [][NextDispatch]_vars

\* every command that hands a frame to the socket, on one connection
NextBuilders ==
    \/ Mount
    \/ Render
    \/ \E s \in Sockets : Open(s)
    \/ \E s \in Sockets, text \in LogonAcks : Message(s, text)
    \/ \E s \in Sockets : Close(s)
    \/ \E m \in Texts : SendMessage(m)
    \/ \E p \in PttInputs : SendPTT(p[1], p[2])
    \/ \E audio \in Blobs : SendAudio(audio)
    \/ \E i \in 1..Len(readers) : ReaderLoad(i)
    \/ \E q \in QrCodes : Register(q)
    \/ \E d \in Raws : SendRaw(d)
    \/ StopMeeting

SpecBuilders == Init /\ [][NextBuilders]_vars

\* sendAudio, the read it starts, and a command called while it is in flight
NextAudio ==
    \/ Mount
    \/ Render
    \/ \E s \in Sockets : Open(s)
    \/ \E s \in Sockets, text \in LogonAcks : Message(s, text)
    \/ \E s \in Sockets : Close(s)
    \/ \E m \in Texts : SendMessage(m)
    \/ \E audio \in Blobs : SendAudio(audio)
    \/ \E i \in 1..Len(readers) : ReaderLoad(i)

SpecAudio == Init /\ [][NextAudio]_vars

----------------------------------------------------------------------------
(* Properties.                                                             *)

\* the logon frames socket s accepted while open, in a history of send calls
LogonsOn(h, s) ==
    {i \in 1..Len(h) :
        h[i].sock = s /\ h[i].rs = "OPEN" /\ h[i].frame.type = "logon"}

Live(r) == {s \in Sockets : r[s] \in {"CONNECTING", "OPEN"}}

\* log entry i of history h holds token c
Holds(h, i, c) == \E j \in 1..Len(h[i]) : h[i][j] = c

Logged(entry) == \E i \in 1..Len(logs) : logs[i] = entry

(* C1 as stated: within one connection lifetime at most one logon frame is *)
(* ever sent, whatever the socket events, the acknowledgments and the      *)
(* changes of accountKey.                                                  *)
C1_AtMostOneLogon ==
    \A s \in Sockets : Cardinality(LogonsOn(sent, s)) <= 1

(* C1 amended: a step sends at most one logon frame, and a connection that *)
(* has already been sent one is sent another only by a step that changes   *)
(* the accountKey input; socket events, acknowledgments (failures too) and *)
(* the renders they ask for never send one again.                          *)
C1_SecondLogonOnlyOnKeyChange ==
    [][\A s \in Sockets :
         /\ Cardinality(LogonsOn(sent', s)) <= Cardinality(LogonsOn(sent, s)) + 1
         /\ (LogonsOn(sent, s) # {} /\ LogonsOn(sent', s) # LogonsOn(sent, s))
               => accountKey' # accountKey]_vars

\* a failure acknowledgment and the render it asks for, and still one logon
C1_Witness ==
    /\ last.op = "render"
    /\ Logged(<<"Authentication failed">>)
    /\ WS # 0 /\ rs[WS] = "OPEN"
    /\ canAuthenticate /\ ~authenticated
    /\ Cardinality(LogonsOn(sent, WS)) = 1

(* C2 as stated: a connection that opened while accountKey or imei was ""  *)
(* is never sent a logon frame.                                            *)
C2_NoLogonIfEmptyAtOpen ==
    \A s \in emptyAtOpen : LogonsOn(sent, s) = {}

(* C2 amended: a run of the authentication effect on an eligible           *)
(* connection while accountKey or imei is "" sends nothing and appends the *)
(* log entry that the credentials were not provided; every logon frame     *)
(* carries the non-empty imei and accountKey of its render; and a          *)
(* connection that opened with an empty credential is sent a logon frame   *)
(* only by a step that changes accountKey.                                 *)
C2_NoLogonWhileEmpty ==
    [][/\ ( /\ last'.op \in {"mount", "render", "setUrl", "setImei", "setAccountKey"}
            /\ last'.op = "mount" \/ authenticationDepsChanged(seen, seen')
            /\ seen'.canAuthenticate /\ ~seen'.authenticated /\ WS' # 0
            /\ seen'.accountKey = "" \/ seen'.imei = "" )
          => /\ logs' = Append(logs, <<"Account key or IMEI not provided">>)
             /\ sent' = sent
       /\ \A i \in 1..Len(sent') :
            (i > Len(sent) /\ sent'[i].frame.type = "logon")
               => /\ accountKey' # "" /\ imei' # ""
                  /\ sent'[i].frame.data = <<imei', accountKey'>>
       /\ \A s \in emptyAtOpen :
            LogonsOn(sent', s) # LogonsOn(sent, s) => accountKey' # accountKey]_vars

\* opened with an empty credential, rendered, the skip logged, nothing sent
C2_Witness ==
    /\ last.op = "render"
    /\ WS \in emptyAtOpen /\ rs[WS] = "OPEN"
    /\ seen.canAuthenticate /\ ~seen.authenticated
    /\ Logged(<<"Account key or IMEI not provided">>)
    /\ sent = <<>>

(* C3 as stated: a logon acknowledgment with payload "success" makes       *)
(* authenticated true and eligibility false; with any other payload        *)
(* authenticated is false afterwards and eligibility is unchanged.         *)
C3_FailureLeavesUnauthenticated ==
    [][(last'.op = "message" /\ last'.env.type = "logon")
          => IF last'.env.data = <<"success">>
             THEN authenticated' /\ ~canAuthenticate'
             ELSE ~authenticated' /\ canAuthenticate' = canAuthenticate]_vars

(* C3 amended: with payload "success" authenticated becomes true and       *)
(* eligibility false; with any other payload both authenticated and        *)
(* eligibility are unchanged (so authenticated stays false when it was     *)
(* false, and stays true when it was true).                                *)
C3_FailureLeavesStateUnchanged ==
    [][(last'.op = "message" /\ last'.env.type = "logon")
          => IF last'.env.data = <<"success">>
             THEN authenticated' /\ ~canAuthenticate'
             ELSE /\ authenticated' = authenticated
                  /\ canAuthenticate' = canAuthenticate]_vars

\* a failure acknowledgment received while authenticated
C3_Witness ==
    /\ last.op = "message" /\ last.env.type = "logon"
    /\ last.env.data # <<"success">>
    /\ authenticated
    /\ logs[Len(logs)] = <<"Authentication failed">>

(* C4: a close event leaves eligibility and authenticated false, whatever  *)
(* the state before it.                                                    *)
C4_CloseResetsFlags ==
    last.op = "close" => ~canAuthenticate /\ ~authenticated

\* the close event of a connection that was rendered authenticated
C4_Witness ==
    /\ last.op = "close" /\ last.sock = WS
    /\ seen.authenticated
    /\ ~authenticated /\ ~canAuthenticate

C6_UnauthenticatedCommandsNoOp ==
    [][(last'.op \in {"sendMessage", "sendPTT", "stopMeeting"}
          /\ ~seen.authenticated)
         => /\ sent' = sent /\ logs' = logs /\ messages' = messages
            /\ out'.exc = "none"]_vars

\* sendMessage called on an open, eligible connection whose logon is pending
C6_Witness ==
    /\ last.op = "sendMessage"
    /\ ~seen.authenticated /\ seen.canAuthenticate
    /\ WS # 0 /\ rs[WS] = "OPEN"
    /\ Len(sent) = 1 /\ sent[1].frame.type = "logon"

IsPrefix(a, b) == Len(a) <= Len(b) /\ SubSeq(b, 1, Len(a)) = a

IsSuffix(a, b) == Len(a) <= Len(b) /\ SubSeq(b, Len(b) - Len(a) + 1, Len(b)) = a

(* C7: every step leaves the transcript it found as a suffix of the new    *)
(* transcript (entries are added at the front only) and the log it found   *)
(* as a prefix of the new log.                                             *)
C7_AppendOnly ==
    [][IsSuffix(messages, messages') /\ IsPrefix(logs, logs')]_vars

\* a transcript of three entries from the open event, a command and an envelope
C7_Witness ==
    /\ Len(messages) >= 3 /\ Len(logs) >= 3
    /\ messages[1].type = "rabbit"
    /\ messages[Len(messages)].data = <<"Connected to Rabbithole">>
    /\ \E i \in 1..Len(messages) : messages[i].data = <<"Registering">>

Credentials == (AccountKeys \cup Imeis) \ {""}

(* C8: no entry of the diagnostic log holds a raw accountKey or imei       *)
(* value.                                                                  *)
C8_NoRawCredentialInLogs ==
    \A i \in 1..Len(logs) : \A c \in Credentials : ~Holds(logs, i, c)

ConnectionUnchanged ==
    /\ WS' = WS /\ rs' = rs
    /\ canAuthenticate' = canAuthenticate /\ authenticated' = authenticated

(* C9 as stated: an envelope of a type outside the dispatch table adds no  *)
(* transcript entry, appends exactly one entry to the diagnostic log and   *)
(* leaves the connection state unchanged.                                  *)
C9_UnknownAppendsOneLogEntry ==
    [][(last'.op = "message" /\ last'.env.type = "unknownx")
         => /\ messages' = messages
            /\ Len(logs') = Len(logs) + 1
            /\ ConnectionUnchanged]_vars

(* C9 amended: such an envelope adds no transcript entry and no entry to   *)
(* the diagnostic log; its type and payload are written as one line to the *)
(* console only; the connection state is unchanged.                        *)
C9_UnknownWritesConsoleOnly ==
    [][(last'.op = "message" /\ last'.env.type = "unknownx")
         => /\ messages' = messages
            /\ logs' = logs
            /\ out'.console =
                  <<<<"Unknown message type", last'.env.type>> \o last'.env.data>>
            /\ out'.exc = "none"
            /\ ConnectionUnchanged]_vars

\* an unknown envelope received on an open connection
C9_Witness ==
    /\ last.op = "message" /\ last.env.type = "unknownx"
    /\ rs[last.sock] = "OPEN"
    /\ Len(out.console) = 1
    /\ Len(logs) = 1 /\ Len(messages) = 1

(* C10: sendMessage(m) called while the authenticated the hook returned is *)
(* true and the socket of WS is open hands exactly one frame               *)
(* {type: "message", data: m} to that socket and adds exactly one          *)
(* transcript entry, of origin user, kind text and content m.              *)
C10_SendMessageWhenAuthenticated ==
    [][(last'.op = "sendMessage" /\ seen.authenticated
          /\ WS # 0 /\ rs[WS] = "OPEN")
         => /\ sent' = Append(sent,
                   [sock |-> WS, rs |-> "OPEN",
                    frame |-> [type |-> "message", data |-> last'.args]])
            /\ messages' =
                   <<[type |-> "user", dataType |-> "text", data |-> last'.args]>>
                   \o messages
            /\ out'.exc = "none"]_vars

\* logon, success, render, then sendMessage("hi") on the open socket
C10_Witness ==
    /\ last.op = "sendMessage" /\ last.args = <<"hi">>
    /\ seen.authenticated /\ authenticated
    /\ WS # 0 /\ rs[WS] = "OPEN"
    /\ Len(sent) = 2
    /\ sent[1].frame.type = "logon"
    /\ sent[2].frame = [type |-> "message", data |-> <<"hi">>]
    /\ messages[1] = [type |-> "user", dataType |-> "text", data |-> <<"hi">>]

(* C11: a read started by sendAudio that completes when the connection is  *)
(* closed, or is not authenticated, is a no-op: the step hands no frame to *)
(* send and adds no transcript or log entry.                               *)
C11_LateAudioIsNoOp ==
    [][(last'.op = "readerLoad"
          /\ (WS = 0 \/ rs[WS] # "OPEN" \/ ~authenticated))
         => /\ sent' = sent
            /\ messages' = messages /\ logs' = logs]_vars

MeetingStarted == [type |-> "system", data |-> <<"Meeting started">>, dataType |-> "text"]

(* C12: an inbound meeting envelope adds the system transcript entry       *)
(* "Meeting started" exactly when the active flag of the envelope's        *)
(* payload (its data field) is true.                                       *)
C12_MeetingStartedIffPayloadActive ==
    [][(last'.op = "message" /\ last'.env.type = "meeting")
         => IF last'.env.dataActive
            THEN messages' = <<MeetingStarted>> \o messages
            ELSE messages' = messages]_vars

(* C13: each inbound envelope is handled by one case only: a long envelope *)
(* adds exactly one transcript entry, of kind image with the images joined *)
(* by newlines, and runs neither the meeting action nor the action for an  *)
(* unrecognized type (nothing is written to the console); a meeting        *)
(* envelope does not run the action for an unrecognized type.              *)
C13_OneCasePerEnvelope ==
    [][/\ (last'.op = "message" /\ last'.env.type = "long" /\ last'.env.hasData)
            => /\ messages' = <<[type |-> "rabbit",
                                 data |-> join(last'.env.data, "\n"),
                                 dataType |-> "image"]>> \o messages
               /\ out'.console = <<>>
       /\ (last'.op = "message" /\ last'.env.type = "meeting")
            => out'.console = <<>>]_vars

(* C14: an inbound frame that is not a well-formed envelope (not JSON, or  *)
(* a case's payload field missing) raises no exception out of the message  *)
(* listener: it is recorded as one diagnostic log entry and the connection *)
(* state is unchanged.                                                     *)
C14_MalformedFrameCaught ==
    [][(last'.op = "message"
          /\ (~last'.env.json
                \/ (last'.env.type \in {"audio", "long"} /\ ~last'.env.hasData)))
         => /\ out'.exc = "none"
            /\ Len(logs') = Len(logs) + 1
            /\ ConnectionUnchanged]_vars

Without(q, i) == SubSeq(q, 1, i - 1) \o SubSeq(q, i + 1, Len(q))

(* C15: frames are handed to send in the order in which their builder      *)
(* calls were made, the frame of a sendAudio call included: when           *)
(* the read of a sendAudio call completes and its frame is handed to send, *)
(* no frame has been handed to send since that sendAudio call.             *)
C15_FramesInCallOrder ==
    [][(last'.op = "readerLoad" /\ sent' # sent)
         => \E i \in 1..Len(readers) :
               /\ readers' = Without(readers, i)
               /\ sentAtRead' = Without(sentAtRead, i)
               /\ sentAtRead[i] = Len(sent)]_vars

(* C18: an event of a socket that is no longer the current one (a close or *)
(* error event delivered after the socket was torn down and replaced)      *)
(* leaves the eligibility and authenticated of the current connection as   *)
(* they were.                                                              *)
C18_SupersededSocketEventsInert ==
    [][(last'.op \in {"open", "message", "error", "close"} /\ last'.sock # WS)
         => /\ canAuthenticate' = canAuthenticate
            /\ authenticated' = authenticated
            /\ WS' = WS]_vars

\* no render is pending: the constants of the latest render are the state cells
Rendered == seen = Bind(url, imei, accountKey)

(* C16: a connection that opened while accountKey and imei were both       *)
(* non-empty, and that is still open and not torn down, is sent a logon    *)
(* frame with exactly that imei and accountKey: once the renders asked for *)
(* have run (none is pending), the frame has been sent on it, or the       *)
(* connection is authenticated.                                            *)
C16_LogonSentOnOpenConnection ==
    ( /\ mounted = "mounted" /\ Rendered
      /\ WS # 0 /\ rs[WS] = "OPEN" /\ WS \notin emptyAtOpen
      /\ accountKey # "" /\ imei # "" )
      => \/ authenticated
         \/ \E i \in LogonsOn(sent, WS) : sent[i].frame.data = <<imei, accountKey>>

(* C17: an error event of the socket appends one entry to the log and adds *)
(* one system transcript entry, both describing the error, and leaves      *)
(* eligibility, authenticated and the socket handle as they were.          *)
C17_ErrorOnlyRecords ==
    [][last'.op = "error"
         => /\ logs' = Append(logs, <<"Error: ", "{\"isTrusted\":true}">>)
            /\ messages' = <<[type |-> "system",
                              data |-> <<"Error: ", "{\"isTrusted\":true}">>,
                              dataType |-> "text"]>> \o messages
            /\ canAuthenticate' = canAuthenticate
            /\ authenticated' = authenticated
            /\ WS' = WS
            /\ sent' = sent /\ out'.exc = "none"]_vars

\* the error event of the current socket while the connection is authenticated
C17_Witness ==
    /\ last.op = "error" /\ last.sock = WS
    /\ authenticated /\ ~canAuthenticate
    /\ logs[Len(logs)][1] = "Error: "
    /\ messages[1].data[1] = "Error: "

(* C19: eligibility (canAuthenticate) and authenticated are never both     *)
(* true, in the state cells and in the constants of a render alike.        *)
C19_NotEligibleAndAuthenticated ==
    /\ ~(canAuthenticate /\ authenticated)
    /\ ~(seen.canAuthenticate /\ seen.authenticated)

\* a success acknowledgment on a connection that was rendered eligible
C19_Witness ==
    /\ last.op = "message" /\ last.env.data = <<"success">>
    /\ seen.canAuthenticate /\ ~seen.authenticated
    /\ authenticated /\ ~canAuthenticate

(* C20: every frame a command hands to send goes to the current socket     *)
(* while that socket is open; a command called while the socket is still   *)
(* connecting, or already closing or closed, calls send not at all and     *)
(* raises no exception.                                                    *)
C20_SendOnlyOnOpenSocket ==
    [][last'.op \in {"sendMessage", "sendPTT", "sendAudio", "readerLoad",
                     "register", "sendRaw", "stopMeeting"}
         => /\ out'.exc = "none"
            /\ \A i \in (Len(sent) + 1)..Len(sent') :
                  sent'[i].sock = WS /\ sent'[i].rs = "OPEN"]_vars

====
